---- MODULE Spec2Model ----
(***************************************************************************)
(* The analysis pipeline of tulsa-coffee-trends (analyze.py): load_raw,    *)
(* canonical_merge, collect_review_text, sentiment_scores and rank_shops,  *)
(* run in main's order over two in-memory tables (source A = Google,       *)
(* source B = Yelp).                                                       *)
(*                                                                         *)
(* Tables are sequences of rows plus the set of their column names.  A     *)
(* nullable cell is <<>> (NaN / None / pd.NA) or <<v>>.  Strings are       *)
(* sequences of character tokens; "e_acute" stands for U+00E9.  Numbers    *)
(* are fixed point: coordinates in 1/10000 degree, ratings in tenths,      *)
(* compound sentiment in tenths, counts in units.  Floating-point rounding *)
(* error is not modelled.                                                  *)
(***************************************************************************)
EXTENDS Integers, Sequences, FiniteSets, TLC

VARIABLES files, g, y, canon, reviews, scored, ranked, pc, err

vars == <<files, g, y, canon, reviews, scored, ranked, pc, err>>

(***************************************************************************)
(* Bounds of the model.                                                    *)
(***************************************************************************)
MaxRows == 2

(***************************************************************************)
(* Nullable cells.                                                         *)
(***************************************************************************)
NULL == <<>>
Some(v) == <<v>>
Val(o) == o[1]
IsNull(o) == o = <<>>
NotNull(o) == o # <<>>

\* Series.fillna(other): the cell itself unless it is null.
FillNa(a, b) == IF IsNull(a) THEN b ELSE a

Range(s) == {s[i] : i \in 1..Len(s)}

Max2(a, b) == IF a >= b THEN a ELSE b

(***************************************************************************)
(* Strings: str.lower, re.sub(r"[^a-z0-9]+", " "), str.strip.              *)
(***************************************************************************)
UpperChars == <<"A","B","C","D","E","F","G","H","I","J","K","L","M",
                "N","O","P","Q","R","S","T","U","V","W","X","Y","Z">>
LowerChars == <<"a","b","c","d","e","f","g","h","i","j","k","l","m",
                "n","o","p","q","r","s","t","u","v","w","x","y","z">>
DigitChars == <<"0","1","2","3","4","5","6","7","8","9">>

\* Code-point order of the characters a normalized name can hold.
NormAlphabet == <<" ">> \o DigitChars \o LowerChars

LowerMap ==
    [c \in {UpperChars[i] : i \in 1..Len(UpperChars)} |->
        LowerChars[CHOOSE i \in 1..Len(UpperChars) : UpperChars[i] = c]]

\* str.lower of one character; other characters are their own lower case.
LowerChar(c) ==
    IF c \in DOMAIN LowerMap THEN LowerMap[c]
    ELSE IF c = "E_acute" THEN "e_acute" ELSE c

StrLower(s) == [i \in 1..Len(s) |-> LowerChar(s[i])]

\* The character class [a-z0-9].
AlnumChars == Range(LowerChars) \cup Range(DigitChars)
IsAlnum(c) == c \in AlnumChars

\* Every maximal run of characters outside [a-z0-9] becomes one space.
RECURSIVE ReplaceRuns(_, _)
ReplaceRuns(s, inRun) ==
    IF s = <<>> THEN <<>>
    ELSE IF IsAlnum(Head(s)) THEN <<Head(s)>> \o ReplaceRuns(Tail(s), FALSE)
    ELSE IF inRun THEN ReplaceRuns(Tail(s), TRUE)
    ELSE <<" ">> \o ReplaceRuns(Tail(s), TRUE)

IsSpace(c) == c = " "

RECURSIVE LStrip(_)
LStrip(s) == IF s # <<>> /\ IsSpace(Head(s)) THEN LStrip(Tail(s)) ELSE s

RECURSIVE RStrip(_)
RStrip(s) ==
    IF s # <<>> /\ IsSpace(s[Len(s)]) THEN RStrip(SubSeq(s, 1, Len(s) - 1)) ELSE s

Strip(s) == RStrip(LStrip(s))

\* A normalizer without the lower-casing step.
NoLowerNormName(name) ==
    IF IsNull(name) THEN NULL
    ELSE Some(Strip(ReplaceRuns(Val(name), FALSE)))

\* df["name"].str.lower().str.replace(r"[^a-z0-9]+", " ", regex=True).str.strip()
NormName(name) ==
    IF IsNull(name) THEN NULL
    ELSE Some(Strip(ReplaceRuns(StrLower(Val(name)), FALSE)))

\* Series.round(3), round half to even, on a value held in 1/10000 degree.
Round3(x) ==
    IF IsNull(x) THEN NULL
    ELSE LET q == Val(x) \div 10
             r == Val(x) % 10
         IN  Some(10 * (IF r < 5 THEN q
                        ELSE IF r > 5 THEN q + 1
                        ELSE IF q % 2 = 0 THEN q ELSE q + 1))

NormalizedKey(name, lat, lng) ==
    [norm_name |-> NormName(name), lat_r |-> Round3(lat), lng_r |-> Round3(lng)]

(***************************************************************************)
(* Tables.  A column that a table lacks reads as null in every row         *)
(* (DataFrame.get returns None); indexing it (df["name"]) raises KeyError. *)
(***************************************************************************)
ColsA == {"name", "lat", "lng", "rating", "user_ratings_total", "address",
          "place_id"}
\* "review_text" stands for the review_<i>_text columns.
ColsB == {"name", "lat", "lng", "rating", "review_count", "address",
          "yelp_id", "url", "review_text"}
RequiredCols == {"name", "lat", "lng"}

\* pd.DataFrame()
EmptyFrame == [cols |-> {}, rows |-> <<>>]

\* DataFrame.empty: no rows or no columns.
FrameEmpty(f) == f.rows = <<>> \/ f.cols = {}

ListingA(name, lat, lng, rating, urt, address, place_id) ==
    [name |-> name, lat |-> lat, lng |-> lng, rating |-> rating,
     user_ratings_total |-> urt, address |-> address, place_id |-> place_id]

ListingB(name, lat, lng, rating, review_count, address, yelp_id, url, texts) ==
    [name |-> name, lat |-> lat, lng |-> lng, rating |-> rating,
     review_count |-> review_count, address |-> address, yelp_id |-> yelp_id,
     url |-> url, texts |-> texts]

\* A source-B row as it reads when the table has only the columns cols.
ProjectB(r, cols) ==
    [name |-> IF "name" \in cols THEN r.name ELSE NULL,
     lat |-> IF "lat" \in cols THEN r.lat ELSE NULL,
     lng |-> IF "lng" \in cols THEN r.lng ELSE NULL,
     rating |-> IF "rating" \in cols THEN r.rating ELSE NULL,
     review_count |-> IF "review_count" \in cols THEN r.review_count ELSE NULL,
     address |-> IF "address" \in cols THEN r.address ELSE NULL,
     yelp_id |-> IF "yelp_id" \in cols THEN r.yelp_id ELSE NULL,
     url |-> IF "url" \in cols THEN r.url ELSE NULL,
     texts |-> IF "review_text" \in cols THEN r.texts ELSE <<>>]

FrameA(rows) == [cols |-> ColsA, rows |-> rows]
FrameB(rows, cols) ==
    [cols |-> cols, rows |-> [i \in 1..Len(rows) |-> ProjectB(rows[i], cols)]]

\* All sequences over S of length lo..hi.
SeqsOf(S, lo, hi) == UNION {[1..n -> S] : n \in lo..hi}

RECURSIVE ConcatAll(_)
ConcatAll(ss) == IF ss = <<>> THEN <<>> ELSE Head(ss) \o ConcatAll(Tail(ss))

(***************************************************************************)
(* load_raw: a missing file leaves the table at pd.DataFrame(); a file     *)
(* that exists holds a header and at least one row.                        *)
(***************************************************************************)
NoFile == [exists |-> FALSE, frame |-> EmptyFrame]
File(frame) == [exists |-> TRUE, frame |-> frame]

ReadOrEmpty(f) == IF f.exists THEN f.frame ELSE EmptyFrame

(***************************************************************************)
(* canonical_merge                                                         *)
(***************************************************************************)
CanonTriple(c) == <<c.canonical_name, c.canonical_lat, c.canonical_lng>>

\* A drop_duplicates that never equates two null cells (SQL's NULL <> NULL).
NullsDistinctDropDuplicates(rows) ==
    LET Same(a, b) == CanonTriple(a) = CanonTriple(b)
                      /\ \A k \in 1..3 : NotNull(CanonTriple(a)[k])
        Keep(i) == \A j \in 1..(i - 1) : ~Same(rows[j], rows[i])
        RECURSIVE Build(_)
        Build(i) == IF i > Len(rows) THEN <<>>
                    ELSE (IF Keep(i) THEN <<rows[i]>> ELSE <<>>) \o Build(i + 1)
    IN  Build(1)

\* drop_duplicates(subset=[canonical_name, canonical_lat, canonical_lng]),
\* keep="first"; nulls compare equal; reset_index.
DropDuplicates(rows) ==
    LET Keep(i) == \A j \in 1..(i - 1) : CanonTriple(rows[j]) # CanonTriple(rows[i])
        RECURSIVE Build(_)
        Build(i) == IF i > Len(rows) THEN <<>>
                    ELSE (IF Keep(i) THEN <<rows[i]>> ELSE <<>>) \o Build(i + 1)
    IN  Build(1)

\* y is None or y.empty or not {"name","lat","lng"}.issubset(y.columns)
UseFallback(yf) == FrameEmpty(yf) \/ ~(RequiredCols \subseteq yf.cols)

\* A fallback that copies the Google rating into rating_yelp as well.
FallbackRowRatingCopied(r) ==
    [canonical_name |-> r.name, canonical_lat |-> r.lat, canonical_lng |-> r.lng,
     address |-> r.address, rating_google |-> r.rating,
     user_ratings_total |-> r.user_ratings_total,
     rating_yelp |-> r.rating, review_count |-> NULL,
     place_id |-> r.place_id, yelp_id |-> NULL, url |-> NULL]

FallbackRow(r) ==
    [canonical_name |-> r.name, canonical_lat |-> r.lat, canonical_lng |-> r.lng,
     address |-> r.address, rating_google |-> r.rating,
     user_ratings_total |-> r.user_ratings_total,
     rating_yelp |-> NULL, review_count |-> NULL,
     place_id |-> r.place_id, yelp_id |-> NULL, url |-> NULL]

\* The Google-only branch; an empty g gives the empty table with the 11 columns.
FallbackMerge(gf) ==
    IF FrameEmpty(gf) THEN <<>>
    ELSE DropDuplicates([i \in 1..Len(gf.rows) |-> FallbackRow(gf.rows[i])])

\* prep(df): df["name"] raises KeyError on a table without the column; the .str
\* accessor raises AttributeError on a name column that holds no string at all
\* (read_csv gives such a column dtype float64).
PrepError(df) ==
    IF ~(RequiredCols \subseteq df.cols) THEN "KeyError"
    ELSE IF \A i \in 1..Len(df.rows) : IsNull(df.rows[i].name) THEN "AttributeError"
    ELSE "none"

KeyOf(r) == NormalizedKey(r.name, r.lat, r.lng)

OrdMap ==
    [c \in Range(NormAlphabet) |->
        CHOOSE i \in 1..Len(NormAlphabet) : NormAlphabet[i] = c]
CharOrd(c) == OrdMap[c]

RECURSIVE StrLess(_, _)
StrLess(a, b) ==
    IF b = <<>> THEN FALSE
    ELSE IF a = <<>> THEN TRUE
    ELSE IF Head(a) # Head(b) THEN CharOrd(Head(a)) < CharOrd(Head(b))
    ELSE StrLess(Tail(a), Tail(b))

\* Order of the join keys in the merged table: lexicographic, nulls last.
KeyLess(k1, k2) ==
    LET NameLess(a, b) == IF IsNull(a) THEN FALSE ELSE IF IsNull(b) THEN TRUE
                          ELSE StrLess(Val(a), Val(b))
        NumLess(a, b) == IF IsNull(a) THEN FALSE ELSE IF IsNull(b) THEN TRUE
                         ELSE Val(a) < Val(b)
    IN  IF k1.norm_name # k2.norm_name THEN NameLess(k1.norm_name, k2.norm_name)
        ELSE IF k1.lat_r # k2.lat_r THEN NumLess(k1.lat_r, k2.lat_r)
        ELSE NumLess(k1.lng_r, k2.lng_r)

RECURSIVE SortKeys(_)
SortKeys(S) ==
    IF S = {} THEN <<>>
    ELSE LET m == CHOOSE k \in S : \A o \in S \ {k} : KeyLess(k, o)
         IN  <<m>> \o SortKeys(S \ {m})

InnerGroup(L, R) ==
    ConcatAll([i \in 1..Len(L) |->
                 [j \in 1..Len(R) |-> [l |-> Some(L[i]), r |-> Some(R[j])]]])

\* One join key's rows: the matching pairs (left-major), or the unmatched rows
\* of one side with the other side null.  Null key components match each other.
OuterGroup(L, R) ==
    IF R = <<>> THEN [i \in 1..Len(L) |-> [l |-> Some(L[i]), r |-> NULL]]
    ELSE IF L = <<>> THEN [j \in 1..Len(R) |-> [l |-> NULL, r |-> Some(R[j])]]
    ELSE InnerGroup(L, R)

\* pd.merge(g2, y2, on=[norm_name, lat_r, lng_r], how="outer")
OuterMerge(gRows, yRows) ==
    LET gk == [i \in 1..Len(gRows) |-> [key |-> KeyOf(gRows[i]), row |-> gRows[i]]]
        yk == [i \in 1..Len(yRows) |-> [key |-> KeyOf(yRows[i]), row |-> yRows[i]]]
        keys == SortKeys({p.key : p \in Range(gk) \cup Range(yk)})
        Rows(ps) == [i \in 1..Len(ps) |-> ps[i].row]
        Group(k) == LET Has(p) == p.key = k
                    IN  OuterGroup(Rows(SelectSeq(gk, Has)), Rows(SelectSeq(yk, Has)))
    IN  ConcatAll([i \in 1..Len(keys) |-> Group(keys[i])])

Side(cell, f) == IF IsNull(cell) THEN NULL ELSE Val(cell)[f]

\* Lines 96-111: coalesce Google first, then keep the 11 canonical columns.
MergedRow(p) ==
    [canonical_name |-> FillNa(Side(p.l, "name"), Side(p.r, "name")),
     canonical_lat |-> FillNa(Side(p.l, "lat"), Side(p.r, "lat")),
     canonical_lng |-> FillNa(Side(p.l, "lng"), Side(p.r, "lng")),
     address |-> FillNa(Side(p.l, "address"), Side(p.r, "address")),
     rating_google |-> Side(p.l, "rating"),
     user_ratings_total |-> Side(p.l, "user_ratings_total"),
     rating_yelp |-> Side(p.r, "rating"),
     review_count |-> Side(p.r, "review_count"),
     place_id |-> Side(p.l, "place_id"),
     yelp_id |-> Side(p.r, "yelp_id"),
     url |-> Side(p.r, "url")]

JoinMerge(gf, yf) ==
    LET m == OuterMerge(gf.rows, yf.rows)
    IN  DropDuplicates([i \in 1..Len(m) |-> MergedRow(m[i])])

\* canonical_merge(g, y): the exception it raises ("none" if it returns) and
\* the rows of the table it returns.
canonical_merge(gf, yf) ==
    IF UseFallback(yf) THEN [err |-> "none", rows |-> FallbackMerge(gf)]
    ELSE IF PrepError(gf) # "none" THEN [err |-> PrepError(gf), rows |-> <<>>]
    ELSE IF PrepError(yf) # "none" THEN [err |-> PrepError(yf), rows |-> <<>>]
    ELSE [err |-> "none", rows |-> JoinMerge(gf, yf)]

(***************************************************************************)
(* collect_review_text.  A review cell is null or holds a value that is a  *)
(* str or not (a number); a text is a sequence of word and " " tokens.     *)
(***************************************************************************)
Text(toks) == Some([isStr |-> TRUE, toks |-> toks])
NonText == Some([isStr |-> FALSE, toks |-> <<>>])

\* pd.notnull(t) and isinstance(t, str) and t.strip()
Usable(t) == NotNull(t) /\ Val(t).isStr /\ Strip(Val(t).toks) # <<>>

RECURSIVE KeptTexts(_)
KeptTexts(texts) ==
    IF texts = <<>> THEN <<>>
    ELSE (IF Usable(Head(texts)) THEN <<Strip(Val(Head(texts)).toks)>> ELSE <<>>)
         \o KeptTexts(Tail(texts))

\* " ".join(texts)
RECURSIVE JoinSpace(_)
JoinSpace(ts) ==
    IF ts = <<>> THEN <<>>
    ELSE IF Len(ts) = 1 THEN Head(ts)
    ELSE Head(ts) \o <<" ">> \o JoinSpace(Tail(ts))

\* The rows list built by the loop at lines 119-126.
RECURSIVE BundleRows(_)
BundleRows(rows) ==
    IF rows = <<>> THEN <<>>
    ELSE LET texts == KeptTexts(Head(rows).texts)
         IN  (IF texts # <<>>
              THEN <<[yelp_id |-> Head(rows).yelp_id,
                      review_text |-> Some(JoinSpace(texts))]>>
              ELSE <<>>) \o BundleRows(Tail(rows))

KeepAllRows(rows) == rows

\* DataFrame.dropna(): a row with any null cell goes.
DropNa(rows) ==
    LET Full(r) == NotNull(r.yelp_id) /\ NotNull(r.review_text)
    IN  SelectSeq(rows, Full)

collect_review_text(yf) ==
    IF FrameEmpty(yf) THEN [cols |-> {"yelp_id", "review_text"}, rows |-> <<>>]
    ELSE LET rows == BundleRows(yf.rows)
         IN  \* pd.DataFrame([]) has no columns
             IF rows = <<>> THEN EmptyFrame
             ELSE [cols |-> {"yelp_id", "review_text"}, rows |-> DropNa(rows)]

(***************************************************************************)
(* sentiment_scores.  VADER's compound score is a function of the text; a  *)
(* two-word lexicon stands for it, in tenths, clipped to [-1, 1].          *)
(***************************************************************************)
Valence(tok) == IF tok = "great" THEN 6 ELSE IF tok = "bad" THEN -5 ELSE 0

RECURSIVE SumValence(_)
SumValence(toks) ==
    IF toks = <<>> THEN 0 ELSE Valence(Head(toks)) + SumValence(Tail(toks))

Compound(toks) ==
    LET v == SumValence(toks)
    IN  IF v > 10 THEN 10 ELSE IF v < -10 THEN -10 ELSE v

ScoreCols == {"neg", "neu", "pos", "compound"}

sentiment_scores(df) ==
    IF FrameEmpty(df) THEN [cols |-> df.cols \cup ScoreCols, rows |-> <<>>]
    ELSE [cols |-> df.cols \cup ScoreCols,
          rows |-> [i \in 1..Len(df.rows) |->
                      [yelp_id |-> df.rows[i].yelp_id,
                       review_text |-> df.rows[i].review_text,
                       compound |-> Some(Compound(Val(df.rows[i].review_text)))]]]

(***************************************************************************)
(* Arithmetic of rank_shops.  With eps = 1e-9 a normalized cell is the     *)
(* number n / (s + e*eps) for integers n, s, e; sums and products of such  *)
(* numbers are kept as polynomials in eps, <<c0, c1, c2, c3>>, and         *)
(* compared by their first non-zero coefficient: the later terms are       *)
(* smaller than 1e-3 for the magnitudes the model reaches.                 *)
(***************************************************************************)
RatingUnit == 10
StarsUnit == 2 * RatingUnit      \* the mean of two ratings, in twentieths
VolumeUnit == 1
SentimentUnit == 10

WStars == 6
WVolume == 3
WSentiment == 1
WeightScale == 10                \* 0.6, 0.3 and 0.1 in tenths

PAdd(a, b) == [k \in 1..4 |-> a[k] + b[k]]
PSub(a, b) == [k \in 1..4 |-> a[k] - b[k]]
PScale(c, a) == [k \in 1..4 |-> c * a[k]]
PMul(a, b) ==
    LET Term(i, k) == IF k - i + 1 >= 1 THEN a[i] * b[k - i + 1] ELSE 0
    IN  [k \in 1..4 |-> Term(1, k) + Term(2, k) + Term(3, k) + Term(4, k)]

PSign(p) ==
    LET Sgn(x) == IF x > 0 THEN 1 ELSE IF x < 0 THEN -1 ELSE 0
    IN  IF p[1] # 0 THEN Sgn(p[1]) ELSE IF p[2] # 0 THEN Sgn(p[2])
        ELSE IF p[3] # 0 THEN Sgn(p[3]) ELSE Sgn(p[4])

\* s + e*eps, the denominator of a normalized cell
Denom(v) == <<v.s, v.e, 0, 0>>

(***************************************************************************)
(* rank_shops                                                              *)
(***************************************************************************)
\* left.merge(right, on="yelp_id", how="left"): left order kept, one row per
\* matching right row, null ids match each other.
LeftJoin(L, R) ==
    ConcatAll([i \in 1..Len(L) |->
        LET Has(r) == r.yelp_id = L[i].yelp_id
            m == SelectSeq(R, Has)
        IN  IF m = <<>> THEN <<[l |-> L[i], r |-> NULL]>>
            ELSE [j \in 1..Len(m) |-> [l |-> L[i], r |-> Some(m[j])]]])

\* A cell of an object column read from CSV: the characters of a string.
Str(chars) == <<"str", chars>>
IsStr(c) == Len(c) = 2
Chars(c) == c[2]

IsDigit(ch) == \E k \in 1..Len(DigitChars) : DigitChars[k] = ch
DigitVal(ch) == (CHOOSE k \in 1..Len(DigitChars) : DigitChars[k] = ch) - 1

RECURSIVE DigitsValue(_)
DigitsValue(ds) ==
    IF ds = <<>> THEN 0
    ELSE 10 * DigitsValue(SubSeq(ds, 1, Len(ds) - 1)) + DigitVal(ds[Len(ds)])

\* The decimal number a string spells, in units of 1/unit, or null if the
\* string is not a number: digits, optionally a point and more digits.  The
\* fixed point keeps one decimal digit when unit = 10 and none when unit = 1.
ParseNumber(chars, unit) ==
    LET dots == {k \in 1..Len(chars) : chars[k] = "."}
        cut == IF dots = {} THEN Len(chars) + 1
               ELSE CHOOSE k \in dots : \A m \in dots : k <= m
        whole == SubSeq(chars, 1, cut - 1)
        frac == SubSeq(chars, cut + 1, Len(chars))
        AllDigits(q) == \A k \in 1..Len(q) : IsDigit(q[k])
    IN  IF /\ AllDigits(whole)
           /\ AllDigits(frac)
           /\ Len(whole) + Len(frac) > 0
        THEN Some(unit * DigitsValue(whole)
                  + (IF unit = RatingUnit /\ frac # <<>> THEN DigitVal(frac[1]) ELSE 0))
        ELSE NULL

\* pd.to_numeric(..., errors="coerce"): a number stays, a string becomes the
\* number it spells, anything else becomes null; nothing is raised.
ToNumeric(c, unit) ==
    IF IsNull(c) THEN NULL
    ELSE IF IsStr(c) THEN ParseNumber(Chars(c), unit)
    ELSE c

\* A mean that counts a null rating as zero.
MeanNullAsZero(a, b) ==
    Some((IF IsNull(a) THEN 0 ELSE Val(a)) + (IF IsNull(b) THEN 0 ELSE Val(b)))

\* mean(axis=1, skipna=True) of the two ratings, in twentieths
MeanSkipNa(a, b) ==
    IF IsNull(a) /\ IsNull(b) THEN NULL
    ELSE IF IsNull(a) THEN Some(2 * Val(b))
    ELSE IF IsNull(b) THEN Some(2 * Val(a))
    ELSE Some(Val(a) + Val(b))

\* max(axis=1, skipna=True)
MaxSkipNa(a, b) ==
    IF IsNull(a) THEN b ELSE IF IsNull(b) THEN a ELSE Some(Max2(Val(a), Val(b)))

NotNaCount(cells) == Cardinality({i \in 1..Len(cells) : NotNull(cells[i])})

ColMin(cells) ==
    LET vs == {Val(cells[i]) : i \in {j \in 1..Len(cells) : NotNull(cells[j])}}
    IN  CHOOSE m \in vs : \A v \in vs : m <= v

ColMax(cells) ==
    LET vs == {Val(cells[i]) : i \in {j \in 1..Len(cells) : NotNull(cells[j])}}
    IN  CHOOSE m \in vs : \A v \in vs : m >= v

\* (c - c.min()) / (c.max() - c.min() + 1e-9): a null cell stays null
MinMaxScale(cells, unit) ==
    [i \in 1..Len(cells) |->
        IF IsNull(cells[i]) THEN NULL
        ELSE Some([n |-> Val(cells[i]) - ColMin(cells),
                   s |-> ColMax(cells) - ColMin(cells), e |-> unit])]

\* c.fillna(0.5): a null cell becomes 1/2, any other cell keeps its value
FillHalf(cells, unit) ==
    [i \in 1..Len(cells) |->
        IF IsNull(cells[i]) THEN Some([n |-> unit, s |-> 2 * unit, e |-> 0])
        ELSE Some([n |-> 2 * Val(cells[i]), s |-> 2 * unit, e |-> 0])]

\* norm(col), lines 174-176; unit is the fixed-point unit of the column
norm(cells, unit) ==
    IF NotNaCount(cells) > 1 THEN MinMaxScale(cells, unit) ELSE FillHalf(cells, unit)

\* 0.6 * a + 0.3 * b + 0.1 * c, null if any term is null
WeightedScore(a, b, c) ==
    IF IsNull(a) \/ IsNull(b) \/ IsNull(c) THEN NULL
    ELSE LET qa == Denom(Val(a))
             qb == Denom(Val(b))
             qc == Denom(Val(c))
         IN  Some([num |-> PAdd(PScale(WStars * Val(a).n, PMul(qb, qc)),
                           PAdd(PScale(WVolume * Val(b).n, PMul(qa, qc)),
                                PScale(WSentiment * Val(c).n, PMul(qa, qb)))),
                   den |-> PScale(WeightScale, PMul(qa, PMul(qb, qc)))])

\* sa > sb for two scores of one table (they share the denominator)
ScoreGreater(sa, sb) == PSign(PSub(Val(sa).num, Val(sb).num)) > 0

Column(rows, f) == [i \in 1..Len(rows) |-> rows[i][f]]

\* Lines 150-160: the two left merges on yelp_id.
WithYelpName(canonRows, yraw) ==
    IF ~FrameEmpty(yraw) /\ "yelp_id" \in yraw.cols
    THEN LET m == LeftJoin(canonRows, yraw.rows)
         IN  [i \in 1..Len(m) |-> m[i].l @@ [name |-> Side(m[i].r, "name")]]
    ELSE [i \in 1..Len(canonRows) |-> canonRows[i] @@ [name |-> NULL]]

WithCompound(baseRows, scores) ==
    IF ~FrameEmpty(scores) /\ "compound" \in scores.cols
    THEN LET m == LeftJoin(baseRows, scores.rows)
         IN  [i \in 1..Len(m) |-> m[i].l @@ [compound |-> Side(m[i].r, "compound")]]
    ELSE [i \in 1..Len(baseRows) |-> baseRows[i] @@ [compound |-> NULL]]

\* Lines 162-171.
WithMetrics(baseRows) ==
    [i \in 1..Len(baseRows) |->
        LET r == baseRows[i]
            rg == ToNumeric(r.rating_google, RatingUnit)
            ry == ToNumeric(r.rating_yelp, RatingUnit)
            ut == ToNumeric(r.user_ratings_total, VolumeUnit)
            rc == ToNumeric(r.review_count, VolumeUnit)
        IN  [stars |-> MeanSkipNa(rg, ry),
             volume |-> MaxSkipNa(ut, rc),
             sentiment |-> r.compound,
             rating_google |-> rg, rating_yelp |-> ry,
             user_ratings_total |-> ut, review_count |-> rc] @@ r]

\* Line 178.
WithScore(rows) ==
    LET ns == norm(Column(rows, "stars"), StarsUnit)
        nv == norm(Column(rows, "volume"), VolumeUnit)
        nc == norm(Column(rows, "sentiment"), SentimentUnit)
    IN  [i \in 1..Len(rows) |->
            rows[i] @@ [score |-> WeightedScore(ns[i], nv[i], nc[i])]]

\* sort_values("score", ascending=False), kind="quicksort": descending, rows
\* with a null score last in their original order; the order of rows with
\* equal scores is whatever the sort leaves (quicksort is not stable).
RECURSIVE DescendingOrders(_, _)
DescendingOrders(rows, S) ==
    IF S = {} THEN {<<>>}
    ELSE UNION {{<<i>> \o t : t \in DescendingOrders(rows, S \ {i})} :
                i \in {j \in S :
                         /\ \A k \in S : ~ScoreGreater(rows[k].score, rows[j].score)
                         \* equal rows are interchangeable: take the first
                         /\ \A k \in S : k < j => rows[k] # rows[j]}}

SortOutcomes(rows) ==
    LET scoredIdx == {i \in 1..Len(rows) : NotNull(rows[i].score)}
        IsNaN(r) == IsNull(r.score)
        tail == SelectSeq(rows, IsNaN)
    IN  {[k \in 1..Len(o) |-> rows[o[k]]] \o tail :
            o \in DescendingOrders(rows, scoredIdx)}

\* rank_shops(canon, yelp_scores, y_raw): the exception it raises ("none" if
\* it returns) and the tables it can return.
rank_shops(canonRows, scores, yraw) ==
    IF canonRows = <<>> THEN [err |-> "none", out |-> {<<>>}]
    ELSE IF ~FrameEmpty(yraw) /\ "yelp_id" \in yraw.cols /\ "name" \notin yraw.cols
    THEN [err |-> "KeyError", out |-> {}]
    ELSE [err |-> "none",
          out |-> SortOutcomes(WithScore(WithMetrics(
                      WithCompound(WithYelpName(canonRows, yraw), scores))))]

(***************************************************************************)
(* main: the stages in order.  An exception ends the run (main catches     *)
(* nothing).                                                               *)
(***************************************************************************)
NoError == [stage |-> "none", exc |-> "none"]
Raised(stage, exc) == IF exc = "none" THEN NoError ELSE [stage |-> stage, exc |-> exc]

LoadRaw ==
    /\ pc = "load"
    /\ g' = ReadOrEmpty(files.a)
    /\ y' = ReadOrEmpty(files.b)
    /\ pc' = "merge"
    /\ UNCHANGED <<files, canon, reviews, scored, ranked, err>>

CanonicalMerge ==
    /\ pc = "merge"
    /\ LET r == canonical_merge(g, y)
       IN  /\ canon' = r.rows
           /\ err' = Raised("canonical_merge", r.err)
           /\ pc' = IF r.err = "none" THEN "reviews" ELSE "error"
    /\ UNCHANGED <<files, g, y, reviews, scored, ranked>>

CollectReviewText ==
    /\ pc = "reviews"
    /\ reviews' = collect_review_text(y)
    /\ pc' = "sentiment"
    /\ UNCHANGED <<files, g, y, canon, scored, ranked, err>>

SentimentScores ==
    /\ pc = "sentiment"
    /\ scored' = sentiment_scores(reviews)
    /\ pc' = "rank"
    /\ UNCHANGED <<files, g, y, canon, reviews, ranked, err>>

RankShops ==
    /\ pc = "rank"
    /\ LET r == rank_shops(canon, scored, y)
       IN  IF r.err = "none"
           THEN /\ ranked' \in r.out
                /\ pc' = "done"
                /\ err' = err
           ELSE /\ ranked' = ranked
                /\ pc' = "error"
                /\ err' = Raised("rank_shops", r.err)
    /\ UNCHANGED <<files, g, y, canon, reviews, scored>>

Next ==
    \/ LoadRaw
    \/ CanonicalMerge
    \/ CollectReviewText
    \/ SentimentScores
    \/ RankShops

\* The state before load_raw, for a pair of raw files.
InitWith(fa, fb) ==
    /\ files = [a |-> fa, b |-> fb]
    /\ g = EmptyFrame
    /\ y = EmptyFrame
    /\ canon = <<>>
    /\ reviews = EmptyFrame
    /\ scored = EmptyFrame
    /\ ranked = <<>>
    /\ pc = "load"
    /\ err = NoError

FilesA(listings) ==
    {NoFile} \cup {File(FrameA(rows)) : rows \in SeqsOf(listings, 1, MaxRows)}

FilesB(listings, colSets) ==
    {NoFile} \cup {File(FrameB(rows, cols)) :
                      rows \in SeqsOf(listings, 1, MaxRows), cols \in colSets}

(***************************************************************************)
(* Raw inputs.                                                             *)
(***************************************************************************)
NameFooCafeAccent == <<"F", "o", "o", " ", "C", "a", "f", "e_acute">>
NameFooCafePlain == <<"F", "o", "o", " ", "C", "a", "f", "e">>
NameFooCafeLower == <<"f", "o", "o", " ", "c", "a", "f", "e">>
NameFooCafePunct == <<"F", "O", "O", "-", "-", "c", "a", "f", "e", "!">>
NameBlueDome == <<"B", "l", "u", "e", " ", "D", "o", "m", "e">>
NameNordaggio == <<"N", "o", "r", "d", "a", "g", "g", "i", "o", "s">>

\* Source A of the two-listing scenario: "Foo Cafe" with an acute accent at
\* (36.1, -95.9), rating 4.0, 10 ratings.
ScenarioA ==
    ListingA(Some(NameFooCafeAccent), Some(361000), Some(-959000), Some(40),
             Some(10), Some("addrA1"), Some("p1"))
\* The same listing with the name in plain ASCII.
ScenarioAPlain ==
    ListingA(Some(NameFooCafePlain), Some(361000), Some(-959000), Some(40),
             Some(10), Some("addrA1"), Some("p1"))
\* Source B of the scenario: "foo cafe", same coordinates, rating 5.0, 200 reviews.
ScenarioB ==
    ListingB(Some(NameFooCafeLower), Some(361000), Some(-959000), Some(50),
             Some(200), Some("addrB1"), Some("y1"), Some("url1"),
             <<Text(<<"great">>)>>)

\* Pipeline shapes: which files exist and which columns source B has.
ShapeListingsA ==
    {ScenarioAPlain,
     ListingA(Some(NameBlueDome), Some(361540), Some(-959900), Some(45),
              Some(120), Some("addrA2"), Some("p2"))}
ShapeListingsB ==
    {ScenarioB,
     ListingB(Some(NameNordaggio), Some(361300), Some(-959500), NULL, NULL,
              Some("addrB2"), Some("y2"), Some("url2"), <<NULL>>)}
ShapeColsB ==
    {ColsB, ColsB \ {"name"}, ColsB \ {"lat", "lng"}, ColsB \ {"yelp_id"},
     ColsB \ {"review_text"}}

Init ==
    \E fa \in FilesA(ShapeListingsA), fb \in FilesB(ShapeListingsB, ShapeColsB) :
        InitWith(fa, fb)

Spec == Init /\ [][Next]_vars

(***************************************************************************)
(* Merge inputs: names that normalize alike or not, coordinates that round *)
(* alike, listings without a name and a latitude, repeated listings.       *)
(***************************************************************************)
\* "FOO--cafe!" at 36.1004: the key of ScenarioAPlain, another raw triple.
PunctA ==
    ListingA(Some(NameFooCafePunct), Some(361004), Some(-959000), Some(45),
             Some(120), Some("addrA3"), Some("p3"))
\* No name and no latitude.
UnnamedA ==
    ListingA(NULL, NULL, Some(-959000), Some(30), Some(7),
             Some("addrA4"), Some("p4"))
\* The raw triple of ScenarioAPlain again, other ratings.
RepeatA ==
    ListingA(Some(NameFooCafePlain), Some(361000), Some(-959000), Some(20),
             Some(3), Some("addrA5"), Some("p5"))
UnnamedB ==
    ListingB(NULL, NULL, Some(-959000), Some(35), Some(12),
             Some("addrB2"), Some("y2"), Some("url2"), <<NULL>>)
\* "Foo Cafe" at 36.0996: the key of ScenarioB, another raw triple.
NearB ==
    ListingB(Some(NameFooCafePlain), Some(360996), Some(-959000), Some(25),
             Some(40), Some("addrB3"), Some("y3"), Some("url3"), <<NULL>>)

MergeListingsA == {ScenarioA, ScenarioAPlain, PunctA, UnnamedA, RepeatA}
MergeListingsB == {ScenarioB, UnnamedB, NearB}
MergeColsB == {ColsB, ColsB \ {"lat", "lng"}}

InitMerge ==
    \E fa \in FilesA(MergeListingsA), fb \in FilesB(MergeListingsB, MergeColsB) :
        InitWith(fa, fb)

SpecMerge == InitMerge /\ [][Next]_vars

\* canonical_merge has returned a table.
MergeReturned == pc \notin {"load", "merge"} /\ err.stage # "canonical_merge"

\* canonical_merge has run and source B was empty or lacked name, lat or lng.
RanOnFallbackInput ==
    /\ pc \notin {"load", "merge"}
    /\ (y.rows = <<>> \/ ~({"name", "lat", "lng"} \subseteq y.cols))

\* canonical_merge has run on two non-empty tables that have name, lat and lng.
RanOnJoinInput ==
    /\ pc \notin {"load", "merge"}
    /\ g.rows # <<>> /\ {"name", "lat", "lng"} \subseteq g.cols
    /\ y.rows # <<>> /\ {"name", "lat", "lng"} \subseteq y.cols

(***************************************************************************)
(* C1: after canonical_merge has returned, on either path, no two rows of  *)
(* its output have the same (canonical_name, canonical_lat, canonical_lng),*)
(* null components included.                                               *)
(***************************************************************************)
C1_DedupInvariant ==
    MergeReturned =>
        \A i, j \in 1..Len(canon) :
            i # j => CanonTriple(canon[i]) # CanonTriple(canon[j])

\* Two source-A rows with the same triple and no name were merged into one.
C1_Witness ==
    /\ MergeReturned
    /\ Len(canon) < Len(g.rows)
    /\ \E i \in 1..Len(canon) : IsNull(canon[i].canonical_name)

(***************************************************************************)
(* C2: when source B is empty or lacks name, lat or lng, canonical_merge   *)
(* returns (no exception) the source-A rows in order, without the rows     *)
(* that repeat an earlier (name, lat, lng), each with the name, the        *)
(* coordinates, the address, the rating, the rating count and the place id *)
(* of its source-A row and with rating_yelp, review_count, yelp_id and url *)
(* null.                                                                   *)
(***************************************************************************)
RawTriple(r) == <<r.name, r.lat, r.lng>>

\* The source-A rows that repeat no earlier row's triple.
FirstOccurrences ==
    {i \in 1..Len(g.rows) :
        \A j \in 1..(i - 1) : RawTriple(g.rows[j]) # RawTriple(g.rows[i])}

NthFirstOccurrence(k) ==
    CHOOSE i \in FirstOccurrences :
        Cardinality({j \in FirstOccurrences : j < i}) = k - 1

C2_FallbackCorrect ==
    RanOnFallbackInput =>
        /\ err.stage # "canonical_merge"
        /\ Len(canon) = Cardinality(FirstOccurrences)
        /\ \A k \in 1..Len(canon) :
              LET a == g.rows[NthFirstOccurrence(k)]
                  c == canon[k]
              IN  /\ c.canonical_name = a.name
                  /\ c.canonical_lat = a.lat
                  /\ c.canonical_lng = a.lng
                  /\ c.address = a.address
                  /\ c.rating_google = a.rating
                  /\ c.user_ratings_total = a.user_ratings_total
                  /\ c.place_id = a.place_id
                  /\ IsNull(c.rating_yelp) /\ IsNull(c.review_count)
                  /\ IsNull(c.yelp_id) /\ IsNull(c.url)

\* Source B has rows but no coordinates; a repeated source-A row was dropped.
C2_Witness ==
    /\ RanOnFallbackInput
    /\ y.rows # <<>>
    /\ canon # <<>>
    /\ Len(canon) < Len(g.rows)

(***************************************************************************)
(* C7 (as amended): for source A = one listing "Foo Caf<e acute>" and      *)
(* source B = one listing "foo cafe", both at (36.1, -95.9), A rated 4.0   *)
(* with 10 ratings and B rated 5.0 with 200 reviews, the two normalized    *)
(* keys differ ("foo caf" and "foo cafe") and canonical_merge returns two  *)
(* rows, one with rating_google 4.0 and no rating_yelp, one with           *)
(* rating_yelp 5.0 and no rating_google (stars 4.0 and 5.0 in rank_shops). *)
(* With the source-A name in plain ASCII, "Foo Cafe", the keys are equal   *)
(* and canonical_merge returns one row with rating_google 4.0 and          *)
(* rating_yelp 5.0 (stars 4.5 and volume 200 in rank_shops).               *)
(***************************************************************************)
ScenarioRan(a) ==
    /\ pc \notin {"load", "merge"}
    /\ g.rows = <<a>>
    /\ y = FrameB(<<ScenarioB>>, ColsB)

C7_ScenarioAmended ==
    /\ ScenarioRan(ScenarioA) =>
          /\ err.stage # "canonical_merge"
          /\ KeyOf(g.rows[1]) # KeyOf(y.rows[1])
          /\ Len(canon) = 2
          /\ \E i, j \in 1..Len(canon) :
                /\ canon[i].rating_google = Some(40) /\ IsNull(canon[i].rating_yelp)
                /\ IsNull(canon[j].rating_google) /\ canon[j].rating_yelp = Some(50)
          /\ pc = "done" =>
                {ranked[i].stars : i \in 1..Len(ranked)} = {Some(80), Some(100)}
    /\ ScenarioRan(ScenarioAPlain) =>
          /\ err.stage # "canonical_merge"
          /\ KeyOf(g.rows[1]) = KeyOf(y.rows[1])
          /\ Len(canon) = 1
          /\ canon[1].rating_google = Some(40)
          /\ canon[1].rating_yelp = Some(50)
          /\ pc = "done" =>
                \A i \in 1..Len(ranked) :
                    ranked[i].stars = Some(90) /\ ranked[i].volume = Some(200)

\* C7 as claimed: the accented and the plain name get the same key and the
\* two listings become one canonical row with both ratings.
C7_ScenarioAsClaimed ==
    ScenarioRan(ScenarioA) =>
        /\ KeyOf(g.rows[1]) = KeyOf(y.rows[1])
        /\ Len(canon) = 1
        /\ canon[1].rating_google = Some(40)
        /\ canon[1].rating_yelp = Some(50)

\* The scenario has run to the end and left two canonical rows.
C7_Witness ==
    /\ ScenarioRan(ScenarioA)
    /\ pc = "done"
    /\ Len(canon) = 2
    /\ Len(ranked) = 2

(***************************************************************************)
(* C9: on the join path every NormalizedKey of a source-A or source-B      *)
(* listing belongs to exactly one row of the output of canonical_merge.    *)
(***************************************************************************)
CanonKey(c) == NormalizedKey(c.canonical_name, c.canonical_lat, c.canonical_lng)

C9_OneRowPerKey ==
    (RanOnJoinInput /\ MergeReturned) =>
        \A k \in {KeyOf(r) : r \in Range(g.rows) \cup Range(y.rows)} :
            Cardinality({i \in 1..Len(canon) : CanonKey(canon[i]) = k}) = 1

(***************************************************************************)
(* C10: with a listing that has no name or no coordinates among the        *)
(* inputs of the join path, no row of the output of canonical_merge that   *)
(* pairs a source-A listing with a source-B listing (it has a place_id and *)
(* a yelp_id) lacks a name or a coordinate: a listing that cannot be keyed *)
(* is matched with nothing.  Every listing of SpecMerge has its id.        *)
(***************************************************************************)
Unkeyable(r) == IsNull(r.name) \/ IsNull(r.lat) \/ IsNull(r.lng)

C10_UnkeyableNeverPaired ==
    (/\ RanOnJoinInput
     /\ MergeReturned
     /\ \E r \in Range(g.rows) \cup Range(y.rows) : Unkeyable(r)) =>
        \A i \in 1..Len(canon) :
            (NotNull(canon[i].place_id) /\ NotNull(canon[i].yelp_id)) =>
                /\ NotNull(canon[i].canonical_name)
                /\ NotNull(canon[i].canonical_lat)
                /\ NotNull(canon[i].canonical_lng)

(***************************************************************************)
(* Ranking inputs: shops with and without ratings, counts and review text. *)
(***************************************************************************)
\* The one-listing scenario: "Blue Dome" rated 4.5 by 120.
BlueDomeA ==
    ListingA(Some(NameBlueDome), Some(361540), Some(-959900), Some(45),
             Some(120), Some("addrA2"), Some("p2"))
UnratedA ==
    ListingA(Some(NameNordaggio), Some(361300), Some(-959500), NULL, NULL,
             Some("addrA7"), Some("p7"))
UnratedB ==
    ListingB(Some(NameNordaggio), Some(361300), Some(-959500), NULL, NULL,
             Some("addrB5"), Some("y5"), Some("url5"), <<Text(<<"bad">>)>>)
SilentB ==
    ListingB(Some(NameFooCafePunct), Some(361700), Some(-959100), Some(30),
             Some(50), Some("addrB6"), Some("y6"), Some("url6"), <<NULL>>)

\* Another shop with Blue Dome's rating and count: its score ties with Blue Dome's.
TiedA ==
    ListingA(Some(NameNordaggio), Some(361300), Some(-959500), Some(45),
             Some(120), Some("addrA8"), Some("p8"))

RankListingsA == {BlueDomeA, ScenarioAPlain, UnratedA, TiedA}
RankListingsB == {ScenarioB, UnratedB, SilentB}

InitRank ==
    \E fa \in FilesA(RankListingsA), fb \in FilesB(RankListingsB, {ColsB}) :
        InitWith(fa, fb)

SpecRank == InitRank /\ [][Next]_vars

RankColumns == {"stars", "volume", "sentiment"}
UnitOf(col) ==
    IF col = "stars" THEN StarsUnit
    ELSE IF col = "volume" THEN VolumeUnit ELSE SentimentUnit

\* norm(col) of the returned table (norm does not depend on the row order).
NormOf(col) == norm(Column(ranked, col), UnitOf(col))

\* n / (s + e*eps) = 1/2
IsHalf(v) == NotNull(v) /\ Val(v).e = 0 /\ 2 * Val(v).n = Val(v).s

\* 0 <= n / (s + e*eps) <= 1, for integers n, s >= 0 and 0 <= e*eps < 1
InUnit(v) == NotNull(v) /\ 0 <= Val(v).n /\ Val(v).n <= Val(v).s

(***************************************************************************)
(* C3: in rank_shops a column of stars, volume, sentiment with at most one *)
(* non-null value is normalized to 0.5 in every row.                       *)
(***************************************************************************)
C3_SparseColumnAllHalf ==
    pc = "done" =>
        \A col \in RankColumns :
            NotNaCount(Column(ranked, col)) <= 1 =>
                \A i \in 1..Len(ranked) : IsHalf(NormOf(col)[i])

(***************************************************************************)
(* C4: in rank_shops a column with two or more non-null values is          *)
(* normalized to values in [0, 1]: (x - min) / (max - min + eps) for a     *)
(* non-null x, and 0.5 for a null cell.                                    *)
(***************************************************************************)
C4_DenseColumnInUnit ==
    pc = "done" =>
        \A col \in RankColumns :
            NotNaCount(Column(ranked, col)) >= 2 =>
                \A i \in 1..Len(ranked) :
                    LET c == ranked[i][col]
                        v == NormOf(col)[i]
                        cells == Column(ranked, col)
                    IN  /\ InUnit(v)
                        /\ IsNull(c) => IsHalf(v)
                        /\ NotNull(c) =>
                              Val(v) = [n |-> Val(c) - ColMin(cells),
                                        s |-> ColMax(cells) - ColMin(cells),
                                        e |-> UnitOf(col)]

(***************************************************************************)
(* C5: every row returned by rank_shops has a score, and 0 <= score <= 1.  *)
(***************************************************************************)
C5_ScoreInUnit ==
    pc = "done" =>
        \A i \in 1..Len(ranked) :
            /\ NotNull(ranked[i].score)
            /\ PSign(Val(ranked[i].score).num) >= 0
            /\ PSign(PSub(Val(ranked[i].score).den, Val(ranked[i].score).num)) >= 0

(***************************************************************************)
(* The table rank_shops sorts: base after line 178, rebuilt from the       *)
(* inputs of the call.                                                     *)
(***************************************************************************)
RankedBase == WithScore(WithMetrics(WithCompound(WithYelpName(canon, y), scored)))

RankReturned == pc = "done" /\ canon # <<>>

\* sa >= sb as numbers: a null (NaN) score compares false with everything
ScoreGeq(sa, sb) ==
    /\ NotNull(sa)
    /\ NotNull(sb)
    /\ PSign(PSub(Val(sa).num, Val(sb).num)) >= 0

ScoreEq(sa, sb) == ScoreGeq(sa, sb) /\ ScoreGeq(sb, sa)

\* position of the first row of t equal to r
FirstPos(t, r) == CHOOSE k \in 1..Len(t) : t[k] = r /\ \A m \in 1..(k - 1) : t[m] # r

(***************************************************************************)
(* C11: the table returned by rank_shops is in descending order of score   *)
(* (each row's score is >= the next row's), and rows with equal scores     *)
(* keep the relative order they had in the input.                          *)
(***************************************************************************)
C11_DescendingStable ==
    RankReturned =>
        /\ \A i \in 1..(Len(ranked) - 1) :
               ScoreGeq(ranked[i].score, ranked[i + 1].score)
        /\ \A i, j \in 1..Len(RankedBase) :
               (/\ i < j
                /\ RankedBase[i] # RankedBase[j]
                /\ ScoreEq(RankedBase[i].score, RankedBase[j].score))
               => FirstPos(ranked, RankedBase[i]) < FirstPos(ranked, RankedBase[j])


(***************************************************************************)
(* Metric inputs: rating and count columns that read_csv leaves as strings *)
(* because one of their cells is not a number, next to numeric and null    *)
(* ones.                                                                   *)
(***************************************************************************)
TextRatedA ==
    ListingA(Some(NameBlueDome), Some(361540), Some(-959900),
             Str(<<"4", ".", "5">>), Str(<<"1", "0">>), Some("addrA9"), Some("p9"))
UnparseableA ==
    ListingA(Some(NameFooCafePlain), Some(361000), Some(-959000),
             Str(<<"n", "e", "w">>), Str(<<"1", "2", "k">>), Some("addrA10"),
             Some("p10"))
TextRatedB ==
    ListingB(Some(NameFooCafeLower), Some(361000), Some(-959000),
             Str(<<"3", ".", "5">>), Str(<<"5", "0">>), Some("addrB8"),
             Some("y8"), Some("url8"), <<NULL>>)
UnparseableB ==
    ListingB(Some(NameFooCafeLower), Some(361000), Some(-959000),
             Str(<<"4", ".", "5", " ", "s">>), Str(<<"f", "e", "w">>),
             Some("addrB9"), Some("y9"), Some("url9"), <<Text(<<"great">>)>>)

MetricsListingsA == {ScenarioAPlain, TextRatedA, UnparseableA, UnratedA}
MetricsListingsB == {ScenarioB, TextRatedB, UnparseableB, UnratedB}

\* read_csv types a column as a whole: numbers and nulls, or, when some cell
\* is not a number, strings and nulls.
CsvColumn(cells, unit) ==
    \/ \A i \in 1..Len(cells) : ~IsStr(cells[i])
    \/ /\ \A i \in 1..Len(cells) : IsNull(cells[i]) \/ IsStr(cells[i])
       /\ \E i \in 1..Len(cells) :
              IsStr(cells[i]) /\ IsNull(ParseNumber(Chars(cells[i]), unit))

CsvFile(f, countCol) ==
    \/ f = NoFile
    \/ /\ CsvColumn(Column(f.frame.rows, "rating"), RatingUnit)
       /\ CsvColumn(Column(f.frame.rows, countCol), VolumeUnit)

InitMetrics ==
    \E fa \in FilesA(MetricsListingsA), fb \in FilesB(MetricsListingsB, {ColsB}) :
        /\ CsvFile(fa, "user_ratings_total")
        /\ CsvFile(fb, "review_count")
        /\ InitWith(fa, fb)

SpecMetrics == InitMetrics /\ [][Next]_vars

\* The numbers among two raw cells, as a sequence.
NumbersOf(a, b, unit) ==
    LET IsNum(c) == NotNull(c)
    IN  SelectSeq(<<ToNumeric(a, unit), ToNumeric(b, unit)>>, IsNum)

\* The shop of the canonical table a ranked row was computed from.
SameShop(r, c) ==
    /\ r.canonical_name = c.canonical_name
    /\ r.canonical_lat = c.canonical_lat
    /\ r.canonical_lng = c.canonical_lng
    /\ r.place_id = c.place_id
    /\ r.yelp_id = c.yelp_id

(***************************************************************************)
(* C12: rank_shops raises nothing on unparseable ratings or counts, and in *)
(* every row it returns stars is the mean of the ratings that are numbers  *)
(* and volume the largest of the counts that are numbers, each null        *)
(* exactly when neither of its two source values is a number.              *)
(***************************************************************************)
C12_StarsMeanVolumeMax ==
    /\ err.stage # "rank_shops"
    /\ RankReturned =>
          \A i \in 1..Len(ranked) :
              \E j \in 1..Len(canon) :
                  LET r == ranked[i]
                      c == canon[j]
                      rs == NumbersOf(c.rating_google, c.rating_yelp, RatingUnit)
                      vs == NumbersOf(c.user_ratings_total, c.review_count, VolumeUnit)
                      Sum(q) == IF Len(q) = 0 THEN 0
                                ELSE IF Len(q) = 1 THEN Val(q[1])
                                ELSE Val(q[1]) + Val(q[2])
                  IN  /\ SameShop(r, c)
                      /\ IsNull(r.stars) <=> rs = <<>>
                      /\ NotNull(r.stars) =>
                            Val(r.stars) * Len(rs) * RatingUnit = StarsUnit * Sum(rs)
                      /\ IsNull(r.volume) <=> vs = <<>>
                      /\ NotNull(r.volume) =>
                            /\ \E k \in 1..Len(vs) : Val(vs[k]) = Val(r.volume)
                            /\ \A k \in 1..Len(vs) : Val(vs[k]) <= Val(r.volume)

\* A run on a rating that is not a number, returning a shop with stars and a
\* shop without.
C12_Witness ==
    /\ RankReturned
    /\ \E j \in 1..Len(canon) :
          /\ IsStr(canon[j].rating_google)
          /\ IsNull(ToNumeric(canon[j].rating_google, RatingUnit))
          /\ NotNull(ToNumeric(canon[j].rating_yelp, RatingUnit))
    /\ \E i \in 1..Len(ranked) : IsNull(ranked[i].stars)
    /\ \E i \in 1..Len(ranked) : NotNull(ranked[i].stars)

(***************************************************************************)
(* Review inputs: review cells that are null, numbers, blank or text, in   *)
(* listings with and without a yelp_id.                                    *)
(***************************************************************************)
ReviewB(name, yelp_id, texts) ==
    ListingB(Some(name), Some(361000), Some(-959000), Some(40), Some(20),
             Some("addrB7"), yelp_id, Some("url7"), texts)

ReviewListingsB ==
    {ReviewB(NameFooCafeLower, Some("y1"),
             <<Text(<<" ", "great", " ">>), Text(<<"bad">>)>>),
     ReviewB(NameFooCafeLower, NULL, <<Text(<<"great">>), NULL>>),
     ReviewB(NameBlueDome, Some("y3"), <<NULL, Text(<<" ", " ">>), NonText>>),
     ReviewB(NameBlueDome, NULL, <<NULL, NULL>>),
     ReviewB(NameNordaggio, Some("y5"), <<Text(<<>>), Text(<<"bad", " ">>)>>),
     ReviewB(NameNordaggio, Some("y1"), <<NonText, NonText, Text(<<"great">>)>>)}
ReviewColsB == {ColsB, ColsB \ {"yelp_id"}, ColsB \ {"review_text"}}

InitReview ==
    \E fa \in FilesA({ScenarioAPlain}), fb \in FilesB(ReviewListingsB, ReviewColsB) :
        InitWith(fa, fb)

SpecReview == InitReview /\ [][Next]_vars

\* collect_review_text has returned.
ReviewsCollected ==
    \/ pc \in {"sentiment", "rank", "done"}
    \/ (pc = "error" /\ err.stage = "rank_shops")

\* Some review cell of the listing is a text with a character that is no blank.
HasUsableText(r) ==
    \E k \in 1..Len(r.texts) :
        /\ NotNull(r.texts[k])
        /\ Val(r.texts[k]).isStr
        /\ \E n \in 1..Len(Val(r.texts[k]).toks) : Val(r.texts[k]).toks[n] # " "

WithUsableText == {i \in 1..Len(y.rows) : HasUsableText(y.rows[i])}
WithUsableTextAndId == {i \in WithUsableText : NotNull(y.rows[i].yelp_id)}

NthOf(S, k) == CHOOSE i \in S : Cardinality({j \in S : j < i}) = k - 1

(***************************************************************************)
(* C6 (as amended): collect_review_text returns one bundle per source-B    *)
(* listing that has a usable review text (a non-null text, not blank after *)
(* trimming) and a non-null yelp_id, in listing order and under that       *)
(* yelp_id, and no bundle for any other listing.                           *)
(***************************************************************************)
C6_BundleIffTextAndId ==
    ReviewsCollected =>
        /\ Len(reviews.rows) = Cardinality(WithUsableTextAndId)
        /\ \A k \in 1..Len(reviews.rows) :
              /\ reviews.rows[k].yelp_id = y.rows[NthOf(WithUsableTextAndId, k)].yelp_id
              /\ NotNull(reviews.rows[k].review_text)
              /\ Val(reviews.rows[k].review_text) # <<>>

\* C6 as claimed: one bundle per listing with a usable review text, whatever
\* its yelp_id.
C6_BundleIffText ==
    ReviewsCollected => Len(reviews.rows) = Cardinality(WithUsableText)

\* A bundle was returned for one listing, and another listing, with usable
\* text in a table that has the yelp_id column but no yelp_id, got none.
C6_Witness ==
    /\ ReviewsCollected
    /\ reviews.rows # <<>>
    /\ "yelp_id" \in y.cols
    /\ WithUsableText # WithUsableTextAndId

(***************************************************************************)
(* C8: whatever the raw inputs, no stage of the pipeline raises.           *)
(***************************************************************************)
C8_NoStageRaises == pc # "error" /\ err = NoError

====
